---- MODULE Spec2Model ----
(***************************************************************************)
(* Model of opticif/validators.py: the two CSV structure validators.       *)
(*                                                                         *)
(*   validate_node_csv_structure   : SpecNode   (NodeInit,   NodeNext)     *)
(*   validate_matrix_csv_structure : SpecMatrix (MatrixInit, MatrixNext)   *)
(*                                                                         *)
(* A file is modelled by the rows csv.reader yields for it: a sequence of  *)
(* rows, each a sequence of fields; an entirely empty line is the row <<>>.*)
(* Node-file fields are sequences of characters, so that str.strip() is a  *)
(* computation; matrix cells are compared as whole strings only, as the    *)
(* code does, and are TLA+ strings.                                        *)
(***************************************************************************)
EXTENDS Integers, Sequences, FiniteSets, TLC

VARIABLES
    nfile,      \* node validator: the rows of the file at csv_path
    npc,        \* node validator: "open" | "loop" | "done"
    fieldnames, \* reader.fieldnames, as an optional value: <<>> is None, <<h>> is the list h
    pos,        \* number of rows of nfile the underlying csv reader has consumed
    names,      \* the local set `names`
    examined,   \* number of records the for loop has bound to `row`
    nout,       \* how the call ended
    mfile,      \* matrix validator: the rows of the file at matrix_path
    mpc,        \* matrix validator: "read" | "row" | "cell" | "done"
    matrix,     \* the local list `matrix`
    row_count,  \* the local `row_count`
    i,          \* outer enumerate index (0-based)
    j,          \* inner enumerate index (0-based)
    checked,    \* history: the 0-based <<i, j>> of every cell compared against ["0", "1"]
    mout        \* how the call ended

nvars == <<nfile, npc, fieldnames, pos, names, examined, nout>>
mvars == <<mfile, mpc, matrix, row_count, i, j, checked, mout>>
vars == <<nfile, npc, fieldnames, pos, names, examined, nout,
          mfile, mpc, matrix, row_count, i, j, checked, mout>>

----------------------------------------------------------------------------
(* Bounds of the explored inputs *)

MaxRecords == 3
MaxRows == 2
MaxCols == 2

----------------------------------------------------------------------------
(* Helpers *)

Range(s) == {s[k] : k \in 1..Len(s)}

SeqsUpTo(S, n) == UNION {[1..m -> S] : m \in 0..n}

Min(S) == CHOOSE x \in S : \A y \in S : x <= y

Max(S) == CHOOSE x \in S : \A y \in S : x >= y

None == <<>>

Some(v) == <<v>>

----------------------------------------------------------------------------
(* Outcomes of a call *)

Running == [kind |-> "running", msg |-> "-"]

Ok == [kind |-> "ok", msg |-> "-"]

CSVStructureError(msg) == [kind |-> "CSVStructureError", msg |-> msg]

TypeError == [kind |-> "TypeError", msg |-> "argument of type 'NoneType' is not iterable"]

AttributeError == [kind |-> "AttributeError", msg |-> "'NoneType' object has no attribute 'strip'"]

MRunning == [kind |-> "running", msg |-> "-", element |-> "-", row |-> 0, column |-> 0]

MOk == [kind |-> "ok", msg |-> "-", element |-> "-", row |-> 0, column |-> 0]

NotSquare == [kind |-> "CSVStructureError", msg |-> "is not square", element |-> "-", row |-> 0, column |-> 0]

NotBinary(element, r, c) == [kind |-> "CSVStructureError", msg |-> "is not binary", element |-> element, row |-> r, column |-> c]

----------------------------------------------------------------------------
(* Node files explored: field values are sequences of characters *)

NAME == <<"n", "a", "m", "e">>

ID == <<"i", "d">>

TYPE == <<"t", "y", "p", "e">>

X == <<"x">>

\* values tried in the cells under 'name': empty, blank, plain, padded left, padded right, another
Str == {<<>>, <<" ">>, <<"a">>, <<" ", "a">>, <<"a", " ">>, <<"b">>}

\* first rows tried: an empty first line, and headers with and without 'name'
Headers == {<<>>, <<NAME>>, <<ID, TYPE>>, <<NAME, TYPE>>, <<ID, NAME>>}

\* cell k of a row under header h: Str under 'name' (under the first column when
\* the header has no 'name'), the filler X elsewhere
FieldValues(h, k) ==
    IF (k <= Len(h) /\ h[k] = NAME) \/ (k = 1 /\ NAME \notin Range(h)) THEN Str ELSE {X}

\* rows of 0 .. Len(h)+1 fields: shorter than, as long as and longer than the header
RowsFor(h) ==
    UNION {{r \in [1..n -> Str \cup {X}] : \A k \in 1..n : r[k] \in FieldValues(h, k)} :
           n \in 0..(Len(h) + 1)}

\* file is the empty file, or a header followed by at most MaxRecords rows
IsNodeFile(file) ==
    \/ file = <<>>
    \/ \E h \in Headers : \E n \in 0..MaxRecords : \E rs \in [1..n -> RowsFor(h)] :
           file = <<h>> \o rs

----------------------------------------------------------------------------
(* validate_node_csv_structure *)

IsSpace(c) == c = " "

\* str.strip(): drop leading and trailing whitespace
Strip(s) ==
    LET keep == {k \in 1..Len(s) : ~IsSpace(s[k])}
    IN  IF keep = {} THEN <<>> ELSE SubSeq(s, Min(keep), Max(keep))

\* csv.DictReader.fieldnames: the first row the reader yields, None for a file with no row
ReadFieldnames(file) == IF Len(file) = 0 THEN None ELSE Some(file[1])

\* line 32 testing the first header field only
HeaderHasNameFirstOnly(h) == Len(h) > 0 /\ h[1] = NAME

\* '"name" not in reader.fieldnames' negated, for fieldnames a list
HeaderHasName(h) == \E k \in 1..Len(h) : h[k] = NAME

\* csv.DictReader.__next__ skips rows equal to []: index of the next row that is not
\* empty after p rows were consumed, 0 when the file is exhausted (StopIteration)
NextRecordPos(file, p) ==
    LET later == {k \in (p + 1)..Len(file) : file[k] # <<>>}
    IN  IF later = {} THEN 0 ELSE Min(later)

\* row["name"] of the dict DictReader builds: dict(zip(fieldnames, row)), the last
\* column named 'name' winning, then restval (None) for every header field the
\* row is too short for
NameValue(h, row) ==
    LET zipped == {k \in 1..Len(h) : k <= Len(row) /\ h[k] = NAME}
        rest   == {k \in 1..Len(h) : k > Len(row) /\ h[k] = NAME}
    IN  IF rest # {} \/ zipped = {} THEN None ELSE Some(row[Max(zipped)])

\* line 40 with the strip left out
RowNameNoStrip(value) == value[1]

\* line 40, for a row whose 'name' value is a str: row["name"].strip()
RowName(value) == Strip(value[1])

\* lines 41-48: what the two tests decide for the trimmed name
CheckName(name, seen) ==
    IF name = <<>> THEN "empty"
    ELSE IF name \in seen THEN "duplicate"
    ELSE "add"

\* line 50 left out
AddNameForgotten(seen, name) == seen

\* line 50
AddName(seen, name) == seen \cup {name}

MissingColumn == CSVStructureError("should have a header with a 'name' column")

EmptyValue == CSVStructureError("contains an empty value in the 'name' column")

DuplicateNames == CSVStructureError("contains duplicate names in the 'name' column")

MatrixIdle ==
    /\ mfile = <<>>
    /\ mpc = "idle"
    /\ matrix = <<>>
    /\ row_count = 0
    /\ i = 0
    /\ j = 0
    /\ checked = {}
    /\ mout = MRunning

NodeInit ==
    /\ IsNodeFile(nfile)
    /\ npc = "open"
    /\ fieldnames = None
    /\ pos = 0
    /\ names = {}
    /\ examined = 0
    /\ nout = Running
    /\ MatrixIdle

\* lines 30-38: open, read the header, test it
NodeOpen ==
    /\ npc = "open"
    /\ fieldnames' = ReadFieldnames(nfile)
    /\ pos' = IF Len(nfile) = 0 THEN 0 ELSE 1
    /\ IF fieldnames' = None
       THEN npc' = "done" /\ nout' = TypeError
       ELSE IF ~HeaderHasName(fieldnames'[1])
       THEN npc' = "done" /\ nout' = MissingColumn
       ELSE npc' = "loop" /\ nout' = nout
    /\ names' = {}
    /\ UNCHANGED <<nfile, examined>>
    /\ UNCHANGED mvars

\* lines 39-50: one iteration of the for loop
NodeRecord ==
    /\ npc = "loop"
    /\ NextRecordPos(nfile, pos) # 0
    /\ LET k       == NextRecordPos(nfile, pos)
           value   == NameValue(fieldnames[1], nfile[k])
           name    == RowName(value)
           verdict == CheckName(name, names)
       IN  /\ pos' = k
           /\ examined' = examined + 1
           /\ IF value = None
              THEN npc' = "done" /\ nout' = AttributeError /\ names' = names
              ELSE IF verdict = "empty"
              THEN npc' = "done" /\ nout' = EmptyValue /\ names' = names
              ELSE IF verdict = "duplicate"
              THEN npc' = "done" /\ nout' = DuplicateNames /\ names' = names
              ELSE npc' = "loop" /\ nout' = nout /\ names' = AddName(names, name)
    /\ UNCHANGED <<nfile, fieldnames>>
    /\ UNCHANGED mvars

\* line 39, StopIteration: the loop ends and the function returns None
NodeExhausted ==
    /\ npc = "loop"
    /\ NextRecordPos(nfile, pos) = 0
    /\ pos' = Len(nfile)
    /\ npc' = "done"
    /\ nout' = Ok
    /\ UNCHANGED <<nfile, fieldnames, names, examined>>
    /\ UNCHANGED mvars

NodeNext == NodeOpen \/ NodeRecord \/ NodeExhausted

SpecNode == NodeInit /\ [][NodeNext]_vars

----------------------------------------------------------------------------
(* Matrices explored *)

\* cell values tried: the two binary symbols, another digit, the empty string
Cells == {"0", "1", "2", ""}

\* rows of at most MaxCols cells
MatrixRows == SeqsUpTo(Cells, MaxCols)

\* file has at most MaxRows rows
IsMatrixFile(file) == \E n \in 0..MaxRows : file \in [1..n -> MatrixRows]

----------------------------------------------------------------------------
(* validate_matrix_csv_structure *)

\* line 72 comparing with the first row's cell count instead of the row count
RowLengthOkFirstRow(row, rc) == Len(row) = Len(matrix[1])

\* line 72 rejecting only the rows that are too long
RowLengthOkAtMost(row, rc) == Len(row) <= rc

\* line 72 negated: 'len(row) != row_count' is false
RowLengthOk(row, rc) == Len(row) = rc

\* line 79 accepting "1" only
IsBinaryElementOnlyOne(element) == element = "1"

\* line 79 negated: 'element not in ["0", "1"]' is false
IsBinaryElement(element) == element \in {"0", "1"}

\* line 81 reporting the 0-based index
ReportRowZeroBased(i0) == i0

\* line 81: {i+1}
ReportRow(i0) == i0 + 1

\* line 81: {j+1}
ReportColumn(j0) == j0 + 1

NodeIdle ==
    /\ nfile = <<>>
    /\ npc = "idle"
    /\ fieldnames = None
    /\ pos = 0
    /\ names = {}
    /\ examined = 0
    /\ nout = Running

MatrixInit ==
    /\ IsMatrixFile(mfile)
    /\ mpc = "read"
    /\ matrix = <<>>
    /\ row_count = 0
    /\ i = 0
    /\ j = 0
    /\ checked = {}
    /\ mout = MRunning
    /\ NodeIdle

\* lines 66-71: read the whole file, count the rows, enter the outer loop
MatrixRead ==
    /\ mpc = "read"
    /\ matrix' = mfile
    /\ row_count' = Len(mfile)
    /\ i' = 0
    /\ IF Len(mfile) = 0
       THEN mpc' = "done" /\ mout' = MOk
       ELSE mpc' = "row" /\ mout' = mout
    /\ UNCHANGED <<mfile, j, checked>>
    /\ UNCHANGED nvars

\* end of the inner loop of row i: next row, or normal return after the last one
RowFinished ==
    IF i + 1 < Len(matrix)
    THEN i' = i + 1 /\ mpc' = "row" /\ mout' = mout
    ELSE i' = i /\ mpc' = "done" /\ mout' = MOk

\* lines 72-78: the length test of row i, then entry into its inner loop
MatrixRowLength ==
    /\ mpc = "row"
    /\ LET row == matrix[i + 1]
       IN  IF ~RowLengthOk(row, row_count)
           THEN mpc' = "done" /\ mout' = NotSquare /\ UNCHANGED <<i, j>>
           ELSE IF Len(row) = 0
           THEN RowFinished /\ j' = j
           ELSE mpc' = "cell" /\ j' = 0 /\ UNCHANGED <<i, mout>>
    /\ UNCHANGED <<mfile, matrix, row_count, checked>>
    /\ UNCHANGED nvars

\* lines 78-82: the test of cell (i, j)
MatrixCell ==
    /\ mpc = "cell"
    /\ LET row     == matrix[i + 1]
           element == row[j + 1]
       IN  /\ checked' = checked \cup {<<i, j>>}
           /\ IF ~IsBinaryElement(element)
              THEN /\ mpc' = "done"
                   /\ mout' = NotBinary(element, ReportRow(i), ReportColumn(j))
                   /\ UNCHANGED <<i, j>>
              ELSE IF j + 1 < Len(row)
              THEN j' = j + 1 /\ UNCHANGED <<i, mpc, mout>>
              ELSE RowFinished /\ j' = j
    /\ UNCHANGED <<mfile, matrix, row_count>>
    /\ UNCHANGED nvars

MatrixNext == MatrixRead \/ MatrixRowLength \/ MatrixCell

SpecMatrix == MatrixInit /\ [][MatrixNext]_vars

----------------------------------------------------------------------------
(* Vocabulary of the properties: matrix files *)

MDone == mpc = "done"

\* every row has as many cells as the file has rows
IsSquare(m) == \A r \in 1..Len(m) : Len(m[r]) = Len(m)

\* 1-based positions of the rows whose cell count differs from the row count
MisSized(m) == {r \in 1..Len(m) : Len(m[r]) # Len(m)}

\* 1-based <<row, column>> of the cells that are neither "0" nor "1"
BadCells(m) ==
    {p \in (1..Len(m)) \X (1..MaxCols + 1) : p[2] <= Len(m[p[1]]) /\ m[p[1]][p[2]] \notin {"0", "1"}}

RowMajorLeq(p, q) == p[1] < q[1] \/ (p[1] = q[1] /\ p[2] <= q[2])

FirstIn(S) == CHOOSE p \in S : \A q \in S : RowMajorLeq(p, q)

\* the bad cells in the rows before the first mis-sized row
BadBeforeMisSized(m) == {p \in BadCells(m) : p[1] < Min(MisSized(m))}

----------------------------------------------------------------------------
(* Properties of validate_matrix_csv_structure, checked under SpecMatrix *)

\* C1: a matrix of R rows (R >= 0) whose rows all have R cells, every cell "0" or
\* "1", is accepted: the call returns normally.
C1_SquareBinaryAccepted ==
    (MDone /\ IsSquare(mfile) /\ BadCells(mfile) = {}) => mout = MOk

C1_Witness ==
    /\ MDone
    /\ Len(mfile) = 2
    /\ IsSquare(mfile)
    /\ BadCells(mfile) = {}
    /\ mfile[1][1] = "0"
    /\ mout = MOk

\* C2 as stated: whenever some row's cell count differs from R the call fails with
\* the squareness violation, whatever the other rows contain.
C2_AlwaysNotSquare ==
    (MDone /\ MisSized(mfile) # {}) => mout = NotSquare

\* C2 amended: whenever some row's cell count differs from R the call fails with a
\* CSVStructureError: the squareness violation when no row before the first
\* mis-sized row holds a non-binary cell, otherwise the binary violation of the
\* first (row-major) non-binary cell of those earlier rows.
C2_NotSquareUnlessEarlierNonBinary ==
    (MDone /\ MisSized(mfile) # {}) =>
        IF BadBeforeMisSized(mfile) = {}
        THEN mout = NotSquare
        ELSE LET p == FirstIn(BadBeforeMisSized(mfile))
             IN  mout = NotBinary(mfile[p[1]][p[2]], p[1], p[2])

C2_Witness ==
    /\ MDone
    /\ MisSized(mfile) = {2}
    /\ BadCells(mfile) # {}
    /\ BadBeforeMisSized(mfile) = {}
    /\ mout = NotSquare

\* C3: a square matrix with a cell other than "0" and "1" is rejected with the
\* binary violation, which cites the value and the 1-based row and column of the
\* first such cell in row-major order (0-based (i, j) is reported as i+1, j+1).
C3_FirstNonBinaryReported ==
    (MDone /\ IsSquare(mfile) /\ BadCells(mfile) # {}) =>
        LET p == FirstIn(BadCells(mfile))
        IN  /\ mout = NotBinary(mfile[p[1]][p[2]], p[1], p[2])
            /\ mout.row = i + 1
            /\ mout.column = j + 1

C3_Witness ==
    /\ MDone
    /\ Len(mfile) = 2
    /\ IsSquare(mfile)
    /\ BadCells(mfile) = {<<2, 2>>}
    /\ mout = NotBinary("2", 2, 2)

\* C10: rows are scanned in file order and a row's length test precedes the test of
\* its cells: a cell of row i is tested only when rows 0..i all have R cells, the
\* cells tested form a row-major prefix, and the squareness failure is raised at
\* the first mis-sized row with no cell of that row or of a later row tested.
C10_LengthBeforeCells ==
    /\ \A p \in checked : \A k \in 0..p[1] : Len(mfile[k + 1]) = Len(mfile)
    /\ \A p \in checked : \A q \in (0..p[1]) \X (0..MaxCols) :
           (q[2] < Len(mfile[q[1] + 1]) /\ RowMajorLeq(q, p)) => q \in checked
    /\ mout = NotSquare =>
           /\ MisSized(mfile) # {}
           /\ i + 1 = Min(MisSized(mfile))
           /\ \A p \in checked : p[1] < i

C10_Witness ==
    /\ mout = NotSquare
    /\ i = 1
    /\ Len(mfile[2]) > 0
    /\ checked = {<<0, 0>>, <<0, 1>>}

----------------------------------------------------------------------------
(* Vocabulary of the properties: node files *)

NDone == npc = "done"

\* the file has a first row and it holds a field 'name'
HasNameHeader(file) == Len(file) > 0 /\ NAME \in Range(file[1])

\* positions of the records: the rows after the header that are not empty lines
RecordIdx(file) == {k \in 2..Len(file) : file[k] # <<>>}

\* the record at k has a value under 'name'
HasValue(file, k) == NameValue(file[1], file[k]) # None

\* that value, trimmed
Trimmed(file, k) == Strip(NameValue(file[1], file[k])[1])

\* the record at k has a value under 'name' that is empty once trimmed
IsBlank(file, k) == HasValue(file, k) /\ Trimmed(file, k) = <<>>

\* the record at k has the trimmed name of an earlier record
RepeatsEarlier(file, k) ==
    /\ HasValue(file, k)
    /\ \E l \in RecordIdx(file) : l < k /\ HasValue(file, l) /\ Trimmed(file, l) = Trimmed(file, k)

\* records the loop cannot pass: no value under 'name', a blank one, a repeated one
Offending(file) ==
    {k \in RecordIdx(file) : ~HasValue(file, k) \/ IsBlank(file, k) \/ RepeatsEarlier(file, k)}

\* records whose trimmed name is empty or repeats an earlier one
Violating(file) == {k \in RecordIdx(file) : IsBlank(file, k) \/ RepeatsEarlier(file, k)}

----------------------------------------------------------------------------
(* Properties of validate_node_csv_structure, checked under SpecNode *)

\* C4: a node file whose header holds 'name' and whose records (none included) all
\* have a non-empty trimmed name, different from every other record's, is accepted.
C4_ValidNodeFileAccepted ==
    (/\ NDone
     /\ HasNameHeader(nfile)
     /\ \A k \in RecordIdx(nfile) :
            /\ HasValue(nfile, k)
            /\ Trimmed(nfile, k) # <<>>
            /\ \A l \in RecordIdx(nfile) \ {k} :
                   HasValue(nfile, l) => Trimmed(nfile, l) # Trimmed(nfile, k))
    => nout = Ok

C4_Witness ==
    /\ NDone
    /\ HasNameHeader(nfile)
    /\ nfile[1] = <<ID, NAME>>
    /\ Cardinality(RecordIdx(nfile)) = 2
    /\ Cardinality(names) = 2
    /\ nout = Ok

\* C5: a node file whose header has no field 'name', the empty file included, is
\* rejected with the missing-column CSVStructureError before any record is examined.
C5_MissingColumnRejected ==
    (NDone /\ ~HasNameHeader(nfile)) => (nout = MissingColumn /\ examined = 0)

C7_AnyRepeatIsDuplicate ==
    (/\ NDone
     /\ HasNameHeader(nfile)
     /\ \E k \in RecordIdx(nfile) : RepeatsEarlier(nfile, k))
    => nout = DuplicateNames

\* C7 amended: with 'name' in the header, the call fails with the duplicate-names
\* violation when the first record in file order whose 'name' value is missing,
\* blank once trimmed or equal once trimmed to an earlier record's, is one whose
\* trimmed value is non-empty and equals an earlier record's.
C7_FirstOffendingRepeatIsDuplicate ==
    (/\ NDone
     /\ HasNameHeader(nfile)
     /\ Offending(nfile) # {}
     /\ RepeatsEarlier(nfile, Min(Offending(nfile)))
     /\ ~IsBlank(nfile, Min(Offending(nfile))))
    => nout = DuplicateNames

C7_Witness ==
    /\ NDone
    /\ HasNameHeader(nfile)
    /\ Offending(nfile) # {}
    /\ Min(Offending(nfile)) = 3
    /\ NameValue(nfile[1], nfile[2]) = Some(<<"a">>)
    /\ NameValue(nfile[1], nfile[3]) = Some(<<" ", "a">>)
    /\ nout = DuplicateNames

\* C8: every call on a readable node file ends in success or in a CSVStructureError,
\* never in an error of another kind.
C8_OnlyStructureErrors ==
    NDone => nout.kind \in {"ok", "CSVStructureError"}

\* C9: with 'name' in the header the scan stops at the first record whose trimmed
\* name is empty or repeats an earlier record's, with that record's violation, no
\* later record examined, and the seen set holding exactly the trimmed names of the
\* records before it, all non-empty and pairwise distinct.
C9_FailFastAtFirstViolation ==
    (NDone /\ HasNameHeader(nfile) /\ Violating(nfile) # {}) =>
        LET k      == Min(Violating(nfile))
            before == {l \in RecordIdx(nfile) : l < k}
        IN  /\ pos = k
            /\ examined = Cardinality(before) + 1
            /\ nout = IF IsBlank(nfile, k) THEN EmptyValue ELSE DuplicateNames
            /\ \A l \in before : HasValue(nfile, l)
            /\ names = {Trimmed(nfile, l) : l \in {b \in before : HasValue(nfile, b)}}
            /\ <<>> \notin names
            /\ Cardinality(names) = Cardinality(before)

====
